---- MODULE Spec2Model ----
(***************************************************************************)
(* Options resolution for the Zync subsystem of the 3scale operator        *)
(* (ZyncOptionsProvider.GetZyncOptions) and the Prometheus rule-factory    *)
(* registry (package prometheusrules).                                     *)
(*                                                                         *)
(* Go strings that are parsed (the database password and the database URL  *)
(* of the zync secret) are sequences of one-character strings, so that     *)
(* url.Parse and the formatting of the default URL are computed character  *)
(* by character.  Every other string is a TLA+ string.                     *)
(***************************************************************************)
EXTENDS Integers, Sequences, FiniteSets, TLC

\* ------------------------------------------------------------------ bounds
\* Number of resolvers (NewZyncOptionsProvider + GetZyncOptions) in one run.
MaxResolutions == 2
\* Number of rule-factory invocations in one run.
MaxInvocations == 2

\* --------------------------------------------------------------- strings
Letters == {"a","b","c","d","e","f","g","h","i","j","k","l","m","n","o","p","q","r","s","t","u","v","w","x","y","z",
            "A","B","C","D","E","F","G","H","I","J","K","L","M","N","O","P","Q","R","S","T","U","V","W","X","Y","Z"}
Digits == {"0","1","2","3","4","5","6","7","8","9"}

\* The printable ASCII characters 32..126 in code order.  The three characters
\* the TLA+ lexer cannot hold in a string are written as their code (x34 is the
\* double quote, x92 the backslash, x96 the backquote).
Printable == <<" ","!","x34","#","$","%","&","'","(",")","*","+",",","-",".","/",
  "0","1","2","3","4","5","6","7","8","9",":",";","<","=",">","?",
  "@","A","B","C","D","E","F","G","H","I","J","K","L","M","N","O",
  "P","Q","R","S","T","U","V","W","X","Y","Z","[","x92","]","^","_",
  "x96","a","b","c","d","e","f","g","h","i","j","k","l","m","n","o",
  "p","q","r","s","t","u","v","w","x","y","z","{","|","}","~">>
HexLower == <<"0","1","2","3","4","5","6","7","8","9","a","b","c","d","e","f">>
HexUpper == <<"0","1","2","3","4","5","6","7","8","9","A","B","C","D","E","F">>

\* net/url ishex, unhex
ishex(c) == \E i \in 1..16 : HexLower[i] = c \/ HexUpper[i] = c
unhex(c) == (CHOOSE i \in 1..16 : HexLower[i] = c \/ HexUpper[i] = c) - 1
\* the character of a byte value; a byte outside 32..126 is the token \x<n>
Chr(n) == IF n \in 32..126 THEN Printable[n - 31] ELSE "\\x" \o ToString(n)

\* strings.Index / strings.LastIndex for a one-character separator, 1-based,
\* 0 when the separator does not occur
Index(s, c) ==
  IF \E i \in 1..Len(s) : s[i] = c
  THEN CHOOSE i \in 1..Len(s) : s[i] = c /\ \A j \in 1..(i - 1) : s[j] # c
  ELSE 0
LastIndex(s, c) ==
  IF \E i \in 1..Len(s) : s[i] = c
  THEN CHOOSE i \in 1..Len(s) : s[i] = c /\ \A j \in (i + 1)..Len(s) : s[j] # c
  ELSE 0
Before(s, i) == SubSeq(s, 1, i - 1)
After(s, i) == SubSeq(s, i + 1, Len(s))
HasPrefix(s, p) == Len(s) >= Len(p) /\ SubSeq(s, 1, Len(p)) = p

\* ------------------------------------------------------- net/url.Parse
\* strings.Index for a separator of several characters, 1-based, 0 for none
IndexOfSeq(s, sub) ==
  LET at == {i \in 1..(Len(s) - Len(sub) + 1) : SubSeq(s, i, i + Len(sub) - 1) = sub}
  IN  IF at = {} THEN 0 ELSE CHOOSE i \in at : \A j \in at : i <= j

\* the characters with a byte value below 0x80
ASCII == {Chr(n) : n \in 0..127}
isASCII(c) == c \in ASCII
\* net/url shouldEscape(c, encodeHost): letters, digits and the characters a
\* host may hold are not escaped, everything else is
HostCharacters ==
  Letters \cup Digits
    \cup {"!", "$", "&", "'", "(", ")", "*", "+", ",", ";", "=", ":", "[", "]",
          "<", ">", "x34", "-", "_", ".", "~"}
shouldEscapeHost(c) == c \notin HostCharacters

\* net/url unescape(s, mode) for the modes url.Parse uses: "host", "zone",
\* and "other" (user-info, path, fragment).  A '%' must be followed by two hex
\* digits, which decode to one byte; in a host only %25 and escapes of bytes
\* from 0x80 on are accepted, in a zone only %25, %20 and escapes of characters
\* a host may hold; an unescaped ASCII character a host may not hold is an
\* error in both.  On error the value is empty.
RECURSIVE unescapeFrom(_, _, _)
unescapeFrom(s, i, mode) ==
  IF i > Len(s) THEN [err |-> FALSE, val |-> <<>>]
  ELSE IF s[i] = "%"
       THEN IF i + 2 > Len(s) \/ ~ishex(s[i + 1]) \/ ~ishex(s[i + 2])
            THEN [err |-> TRUE, val |-> <<>>]
            ELSE IF /\ mode = "host"
                    /\ unhex(s[i + 1]) < 8
                    /\ SubSeq(s, i, i + 2) # <<"%", "2", "5">>
            THEN [err |-> TRUE, val |-> <<>>]
            ELSE IF /\ mode = "zone"
                    /\ SubSeq(s, i, i + 2) # <<"%", "2", "5">>
                    /\ 16 * unhex(s[i + 1]) + unhex(s[i + 2]) # 32
                    /\ shouldEscapeHost(Chr(16 * unhex(s[i + 1]) + unhex(s[i + 2])))
            THEN [err |-> TRUE, val |-> <<>>]
            ELSE LET r == unescapeFrom(s, i + 3, mode)
                 IN  IF r.err THEN [err |-> TRUE, val |-> <<>>]
                     ELSE [err |-> FALSE,
                           val |-> <<Chr(16 * unhex(s[i + 1]) + unhex(s[i + 2]))>> \o r.val]
       ELSE IF mode \in {"host", "zone"} /\ isASCII(s[i]) /\ shouldEscapeHost(s[i])
            THEN [err |-> TRUE, val |-> <<>>]
            ELSE LET r == unescapeFrom(s, i + 1, mode)
                 IN  IF r.err THEN [err |-> TRUE, val |-> <<>>]
                     ELSE [err |-> FALSE, val |-> <<s[i]>> \o r.val]
unescape(s, mode) == unescapeFrom(s, 1, mode)

\* net/url getScheme: [err, scheme, rest]
RECURSIVE getSchemeFrom(_, _)
getSchemeFrom(s, i) ==
  IF i > Len(s) THEN [err |-> FALSE, scheme |-> <<>>, rest |-> s]
  ELSE IF s[i] \in Letters THEN getSchemeFrom(s, i + 1)
  ELSE IF s[i] \in Digits \cup {"+", "-", "."}
       THEN IF i = 1 THEN [err |-> FALSE, scheme |-> <<>>, rest |-> s]
            ELSE getSchemeFrom(s, i + 1)
  ELSE IF s[i] = ":"
       THEN IF i = 1 THEN [err |-> TRUE, scheme |-> <<>>, rest |-> s]
            ELSE [err |-> FALSE, scheme |-> Before(s, i), rest |-> After(s, i)]
  ELSE [err |-> FALSE, scheme |-> <<>>, rest |-> s]
getScheme(s) == getSchemeFrom(s, 1)

\* net/url validOptionalPort: "" or ':' followed by digits only
validOptionalPort(port) ==
  \/ port = <<>>
  \/ /\ port[1] = ":"
     /\ \A i \in 2..Len(port) : port[i] \in Digits

\* net/url parseHost, whether it returns an error: an IP literal in brackets
\* needs its closing bracket and a valid optional port after it, and is
\* unescaped in three parts when it has a zone (%25); any other host needs a
\* valid optional port after its last colon; then the host is unescaped.
parseHostErr(host) ==
  IF HasPrefix(host, <<"[">>)
  THEN LET i == LastIndex(host, "]")
           zone == IndexOfSeq(Before(host, i), <<"%", "2", "5">>)
       IN  IF i = 0 THEN TRUE
           ELSE IF ~validOptionalPort(After(host, i)) THEN TRUE
           ELSE IF zone # 0
                THEN \/ unescape(Before(host, zone), "host").err
                     \/ unescape(SubSeq(host, zone, i - 1), "zone").err
                     \/ unescape(SubSeq(host, i, Len(host)), "host").err
                ELSE unescape(host, "host").err
  ELSE \/ LET i == LastIndex(host, ":")
          IN  i # 0 /\ ~validOptionalPort(SubSeq(host, i, Len(host)))
       \/ unescape(host, "host").err

\* net/url validUserinfo
validUserinfo(s) ==
  \A i \in 1..Len(s) :
     s[i] \in Letters \cup Digits
              \cup {"-", ".", "_", ":", "~", "!", "$", "&", "'", "(", ")", "*", "+", ",", ";", "=", "%", "@"}

NoUser == [isNil |-> TRUE, username |-> <<>>, password |-> <<>>, passwordSet |-> FALSE]

\* net/url parseAuthority: [err, User]
parseAuthority(authority) ==
  LET i == LastIndex(authority, "@")
      hostpart == IF i = 0 THEN authority ELSE After(authority, i)
      userinfo == Before(authority, i)
      c == Index(userinfo, ":")
  IN  IF parseHostErr(hostpart) THEN [err |-> TRUE, User |-> NoUser]
      ELSE IF i = 0 THEN [err |-> FALSE, User |-> NoUser]
      ELSE IF ~validUserinfo(userinfo) THEN [err |-> TRUE, User |-> NoUser]
      ELSE IF c = 0
           THEN LET u == unescape(userinfo, "other")
                IN  [err |-> u.err,
                     User |-> [isNil |-> FALSE, username |-> u.val,
                               password |-> <<>>, passwordSet |-> FALSE]]
           ELSE LET u == unescape(Before(userinfo, c), "other")
                    w == unescape(After(userinfo, c), "other")
                IN  [err |-> u.err \/ w.err,
                     User |-> [isNil |-> FALSE, username |-> u.val,
                               password |-> w.val, passwordSet |-> TRUE]]

\* net/url stringContainsCTLByte: a byte below 0x20 or the byte 0x7f
ControlCharacters == {Chr(n) : n \in (0..31) \cup {127}}
stringContainsCTLByte(s) == \E i \in 1..Len(s) : s[i] \in ControlCharacters

\* net/url.Parse, as far as URL.User depends on it: [err, User].  The
\* fragment is cut off first; the rest is rejected when it holds a control
\* byte, before anything else is looked at.
urlParse(rawURL) ==
  LET h == Index(rawURL, "#")
      u == IF h = 0 THEN rawURL ELSE Before(rawURL, h)
      frag == IF h = 0 THEN <<>> ELSE After(rawURL, h)
      sch == getScheme(u)
      q == Index(sch.rest, "?")
      rest == IF q = 0 THEN sch.rest ELSE Before(sch.rest, q)
      auth0 == SubSeq(rest, 3, Len(rest))
      sl == Index(auth0, "/")
      authority == IF sl = 0 THEN auth0 ELSE Before(auth0, sl)
      path == IF sl = 0 THEN <<>> ELSE SubSeq(auth0, sl, Len(auth0))
      a == parseAuthority(authority)
  IN  IF stringContainsCTLByte(u) THEN [err |-> TRUE, User |-> NoUser]
      ELSE IF u = <<"*">> THEN [err |-> unescape(frag, "other").err, User |-> NoUser]
      ELSE IF sch.err THEN [err |-> TRUE, User |-> NoUser]
      ELSE IF ~HasPrefix(rest, <<"/">>) /\ sch.scheme # <<>>
           THEN [err |-> unescape(frag, "other").err, User |-> NoUser]    \* opaque
      ELSE IF /\ ~HasPrefix(rest, <<"/">>)
              /\ LET s1 == Index(rest, "/")
                     seg == IF s1 = 0 THEN rest ELSE Before(rest, s1)
                 IN  Index(seg, ":") # 0
           THEN [err |-> TRUE, User |-> NoUser]
      ELSE IF /\ HasPrefix(rest, <<"/", "/">>)
              /\ (sch.scheme # <<>> \/ ~HasPrefix(rest, <<"/", "/", "/">>))
           THEN IF a.err THEN [err |-> TRUE, User |-> NoUser]
                ELSE [err |-> unescape(path, "other").err \/ unescape(frag, "other").err,
                      User |-> a.User]
      ELSE [err |-> unescape(rest, "other").err \/ unescape(frag, "other").err,
            User |-> NoUser]

\* ------------------------------------------------- component constants
ZyncSecretName == "zync"
ZyncSecretDatabasePasswordFieldName == "ZYNC_DATABASE_PASSWORD"
ZyncSecretKeyBaseFieldName == "SECRET_KEY_BASE"
ZyncSecretAuthenticationTokenFieldName == "ZYNC_AUTHENTICATION_TOKEN"
ZyncSecretDatabaseURLFieldName == "DATABASE_URL"
ZyncSecretFields == {ZyncSecretDatabasePasswordFieldName, ZyncSecretKeyBaseFieldName,
                     ZyncSecretAuthenticationTokenFieldName, ZyncSecretDatabaseURLFieldName}
\* the secret of another subsystem (system) that holds a field of the same name
SystemAppSecretName == "system-app"
SystemSecretKeyBaseFieldName == "SECRET_KEY_BASE"
SecretNames == {ZyncSecretName, SystemAppSecretName}
ThreescaleRelease == "2.13"

\* ------------------------------------------------------ Secret Source
\* A secret is absent or a bag of fields; a field is absent or holds a value.
Absent == [present |-> FALSE, val |-> <<>>]
Stored(v) == [present |-> TRUE, val |-> v]
NoSecret == [exists |-> FALSE, data |-> [f \in ZyncSecretFields |-> Absent]]
EmptyStore == [n \in SecretNames |-> NoSecret]

\* helper.SecretSource.RequiredFieldValueFromRequiredSecret: NotFound when the
\* secret or the field is absent; never writes.
RequiredFieldValueFromRequiredSecret(store, secretName, fieldName) ==
  IF store[secretName].exists /\ store[secretName].data[fieldName].present
  THEN [err |-> "nil", val |-> store[secretName].data[fieldName].val, store |-> store]
  ELSE [err |-> "NotFound", val |-> <<>>, store |-> store]

\* helper.SecretSource.FieldValue: the stored value if present, else the
\* default, which is persisted (creating the secret when it is absent).
FieldValue(store, secretName, fieldName, def) ==
  IF store[secretName].exists /\ store[secretName].data[fieldName].present
  THEN [err |-> "nil", val |-> store[secretName].data[fieldName].val, store |-> store]
  ELSE [err |-> "nil", val |-> def,
        store |-> [store EXCEPT ![secretName] =
                     [exists |-> TRUE,
                      data |-> [store[secretName].data EXCEPT ![fieldName] = Stored(def)]]]]

\* The write of FieldValue taken by itself: the default is stored under the
\* field, creating the secret when it is absent.  The Secret Source promises a
\* resolver that it reads its own writes and promises nothing across
\* resolvers, so between the lookup and this write of one resolver's call
\* another resolver's call may take place.
PersistDefault(store, secretName, fieldName, def) ==
  [store EXCEPT ![secretName] =
     [exists |-> TRUE,
      data |-> [store[secretName].data EXCEPT ![fieldName] = Stored(def)]]]

\* --------------------------------------------------- default generators
\* component.DefaultZyncDatabasePassword: a fresh random value, never empty.
\* Its character set is not fixed, so the values it may return include ones
\* holding characters that have a meaning in a URL ('/', a %-escape).
GenPasswords == {<<"a", "1">>, <<"b", "2">>, <<"p", "/", "w">>, <<"%", "4", "0">>}
\* component.DefaultZyncSecretKeyBase / DefaultZyncAuthenticationToken
GenSecretKeyBases == {<<"k", "1">>, <<"k", "2">>}
GenAuthenticationTokens == {<<"t", "1">>, <<"t", "2">>}

\* component.DefaultZyncDatabaseURL:
\* "postgresql://zync:" + password + "@zync-database:5432/zync_production"
DefaultZyncDatabaseURL(password) ==
  <<"p","o","s","t","g","r","e","s","q","l",":","/","/","z","y","n","c",":">>
  \o password
  \o <<"@","z","y","n","c","-","d","a","t","a","b","a","s","e",":","5","4","3","2",
       "/","z","y","n","c","_","p","r","o","d","u","c","t","i","o","n">>

\* v1.ResourceRequirements
EmptyResourceRequirements == [limits |-> <<>>, requests |-> <<>>]
DefaultZyncContainerResourceRequirements ==
  [limits |-> <<"1", "512Mi">>, requests |-> <<"150m", "250M">>]
DefaultZyncQueContainerResourceRequirements ==
  [limits |-> <<"1", "512Mi">>, requests |-> <<"250m", "250M">>]
DefaultZyncDatabaseContainerResourceRequirements ==
  [limits |-> <<"250m", "2G">>, requests |-> <<"50m", "250M">>]
DefaultZyncQueServiceAccountImagePullSecrets == <<"threescale-registry-auth">>

\* ------------------------------------------------------- label helpers
\* a Go map[string]string is a function from its keys; m2 laid over m1
MergeLabels(m1, m2) ==
  [k \in DOMAIN m1 \cup DOMAIN m2 |-> IF k \in DOMAIN m2 THEN m2[k] ELSE m1[k]]
SetLabel(m, k, v) == [x \in DOMAIN m \cup {k} |-> IF x = k THEN v ELSE m[x]]
EmptyLabels == [k \in {} |-> ""]

\* helper.ParseVersion: the tag of an image reference
ParseVersion(image) == image.tag
ApplicationType == "application"

\* ------------------------------------------------------------ the state
VARIABLES
  phase,                    \* "init" while package init functions run, then "main"
  initsRun,                 \* how many init functions of package prometheusrules have run
  PrometheusRuleFactories,  \* the registry: a sequence of factory names
  bundles,                  \* what each rule-factory invocation returned, in order
  apimanager,               \* the APIManager resource the resolvers are bound to
  meteringKeys,             \* keys the metering helper of this build shares with later layers
  secrets,                  \* the Secret Source: secret name -> secret
  pc,                       \* per resolver: the next step of GetZyncOptions
  zyncOptions,              \* per resolver: z.zyncOptions
  result,                   \* per resolver: what GetZyncOptions returned (model, err)
  steps,                    \* per resolver: the pipeline steps run so far
  calls,                    \* per resolver: its Secret Source calls so far
  storeAtStart,             \* per resolver: the Secret Source when it was constructed
  pending,                  \* per resolver: a default whose FieldValue call found the field
                            \* absent and has not persisted it yet
  systemPc,                 \* the system resolver: the next step of its secret lookup
  systemOptions,            \* the system resolver: the secret-backed field it resolved
  systemPending,            \* the system resolver: the default its FieldValue call holds
                            \* between its lookup and its write
  systemStoreAtStart        \* the system resolver: the Secret Source when it was constructed

vars == <<phase, initsRun, PrometheusRuleFactories, bundles, apimanager, meteringKeys,
          secrets, pc, zyncOptions, result, steps, calls, storeAtStart,
          pending, systemPc, systemOptions, systemPending, systemStoreAtStart>>
registryVars == <<phase, initsRun, PrometheusRuleFactories, bundles>>
envVars == <<apimanager, meteringKeys>>
resolverVars == <<pc, zyncOptions, result, steps, calls, storeAtStart>>
systemVars == <<systemPc, systemOptions, systemPending, systemStoreAtStart>>

Resolvers == 1..MaxResolutions

\* helper.MeteringLabels(name, version, type)
MeteringLabels(componentName, componentVersion, componentType) ==
  MergeLabels(
    [k \in meteringKeys |-> "metering"],
    [k \in {"rht.subcomp", "rht.comp_ver", "rht.subcomp_t"} |->
       CASE k = "rht.subcomp" -> componentName
         [] k = "rht.comp_ver" -> componentVersion
         [] OTHER -> componentType])

\* ------------------------------------------------------ the APIManager
\* An int64 replica count x, held as its two parts x = hi * 2^16 + lo with
\* lo in 0..65535, so that counts beyond 32 bits can be written.
Int64(hi, lo) == [hi |-> hi, lo |-> lo]
\* Go's conversion int32(x): the low 32 bits of x read as a signed number
int32(x) ==
  LET h == x.hi % 65536
  IN  (IF h >= 32768 THEN h - 65536 ELSE h) * 65536 + x.lo

NilResources == [isNil |-> TRUE, val |-> EmptyResourceRequirements]
CustomResources == [isNil |-> FALSE, val |-> [limits |-> <<"2", "1Gi">>, requests |-> <<"1", "1Gi">>]]
Default3scaleAppLabel == "3scale-api-management"

APIManagers ==
  [ externalDb : BOOLEAN,                  \* IsZyncExternalDatabaseEnabled()
    ResourceRequirementsEnabled : BOOLEAN,
    AppResources : {NilResources, CustomResources},
    QueResources : {NilResources, CustomResources},
    DatabaseResources : {NilResources, CustomResources},
    AppLabel : {Default3scaleAppLabel},
    AppAffinity : {"app-affinity"}, AppTolerations : {"app-tolerations"},
    QueAffinity : {"que-affinity"}, QueTolerations : {"que-tolerations"},
    DatabaseAffinity : {"db-affinity"}, DatabaseTolerations : {"db-tolerations"},
    AppReplicas : {Int64(0, 1), Int64(32768, 0)},       \* 1 and 2^31
    QueReplicas : {Int64(0, 1), Int64(65536, 1)},       \* 1 and 2^32 + 1
    ImagePullSecrets : {[isNil |-> TRUE, val |-> <<>>]},
    Namespace : {"ns"},
    imagesOk : BOOLEAN ]                   \* whether GetAmpImagesOptions succeeds

\* AmpImagesOptionsProvider.GetAmpImagesOptions
GetAmpImagesOptions(am) ==
  IF am.imagesOk
  THEN [err |-> "nil",
        ZyncImage |-> [name |-> "zync", tag |-> ThreescaleRelease],
        ZyncDatabasePostgreSQLImage |-> [name |-> "postgresql", tag |-> "10"]]
  ELSE [err |-> "ImageOptions",
        ZyncImage |-> [name |-> "", tag |-> ""],
        ZyncDatabasePostgreSQLImage |-> [name |-> "", tag |-> ""]]

\* ---------------------------------------------------- the Options Model
\* component.NewZyncOptions(): every field at its zero value
NewZyncOptions ==
  [ ImageTag |-> "", DatabaseImageTag |-> "",
    DatabasePassword |-> <<>>, SecretKeyBase |-> <<>>,
    AuthenticationToken |-> <<>>, DatabaseURL |-> <<>>,
    ContainerResourceRequirements |-> EmptyResourceRequirements,
    QueContainerResourceRequirements |-> EmptyResourceRequirements,
    DatabaseContainerResourceRequirements |-> EmptyResourceRequirements,
    ZyncAffinity |-> "", ZyncTolerations |-> "",
    ZyncQueAffinity |-> "", ZyncQueTolerations |-> "",
    ZyncDatabaseAffinity |-> "", ZyncDatabaseTolerations |-> "",
    ZyncReplicas |-> 0, ZyncQueReplicas |-> 0,
    CommonLabels |-> EmptyLabels, CommonZyncLabels |-> EmptyLabels,
    CommonZyncQueLabels |-> EmptyLabels, CommonZyncDatabaseLabels |-> EmptyLabels,
    ZyncPodTemplateLabels |-> EmptyLabels, ZyncQuePodTemplateLabels |-> EmptyLabels,
    ZyncDatabasePodTemplateLabels |-> EmptyLabels,
    ZyncMetrics |-> FALSE,
    ZyncQueServiceAccountImagePullSecrets |-> <<>>,
    Namespace |-> "" ]

\* ZyncOptions.Validate: every required field is set
ZyncOptionsValid(o) ==
  /\ o.ImageTag # "" /\ o.DatabaseImageTag # ""
  /\ o.DatabasePassword # <<>> /\ o.SecretKeyBase # <<>>
  /\ o.AuthenticationToken # <<>> /\ o.DatabaseURL # <<>>
  /\ DOMAIN o.CommonLabels # {} /\ DOMAIN o.CommonZyncLabels # {}
  /\ DOMAIN o.CommonZyncQueLabels # {} /\ DOMAIN o.CommonZyncDatabaseLabels # {}
  /\ DOMAIN o.ZyncPodTemplateLabels # {} /\ DOMAIN o.ZyncQuePodTemplateLabels # {}
  /\ DOMAIN o.ZyncDatabasePodTemplateLabels # {}
  /\ o.Namespace # ""
Validate(o) == IF ZyncOptionsValid(o) THEN "nil" ELSE "Validation"

\* an error value: the wrapping stage and the cause it wraps
NoError == [stage |-> "", cause |-> "nil"]
Errorf(stage, cause) == [stage |-> stage, cause |-> cause]
\* what GetZyncOptions returns: (model, err); a nil model has isNil
NotReturned == [returned |-> FALSE, isNil |-> TRUE, model |-> NewZyncOptions, err |-> NoError]

\* ------------------------------------------- ZyncOptionsProvider, pure parts
\* mutant: the check stops after the password part was found and never
\* compares it with the password field
validateWithoutComparison(o) ==
  LET zyncDatabaseURL == urlParse(o.DatabaseURL)
  IN  IF zyncDatabaseURL.err THEN "ParseError"
      ELSE IF zyncDatabaseURL.User.isNil THEN "MissingPasswordPart"
      ELSE IF ~zyncDatabaseURL.User.passwordSet THEN "MissingPasswordPart"
      ELSE "nil"

\* mutant: a user-info without password part is compared as an empty password
validateMissingPasswordAsEmpty(o) ==
  LET zyncDatabaseURL == urlParse(o.DatabaseURL)
  IN  IF zyncDatabaseURL.err THEN "ParseError"
      ELSE IF zyncDatabaseURL.User.isNil THEN "MissingPasswordPart"
      ELSE IF o.DatabasePassword # zyncDatabaseURL.User.password THEN "Inconsistency"
      ELSE "nil"

\* validateZyncDatabaseURLAndPasswordFieldsConsistency: the cause of the error
\* it returns, "nil" for none
validateZyncDatabaseURLAndPasswordFieldsConsistency(o) ==
  LET zyncDatabaseURL == urlParse(o.DatabaseURL)
  IN  IF zyncDatabaseURL.err THEN "ParseError"
      ELSE IF zyncDatabaseURL.User.isNil THEN "MissingPasswordPart"
      ELSE IF ~zyncDatabaseURL.User.passwordSet THEN "MissingPasswordPart"
      ELSE IF o.DatabasePassword # zyncDatabaseURL.User.password THEN "Inconsistency"
      ELSE "nil"

\* mutant: the generated default is kept instead of the value the Secret
\* Source returned
lookupDatabasePasswordKeepsDefault(am, store, defaultInternalZyncDatabasePassword) ==
  IF am.externalDb
  THEN RequiredFieldValueFromRequiredSecret(store, ZyncSecretName,
                                            ZyncSecretDatabasePasswordFieldName)
  ELSE [FieldValue(store, ZyncSecretName, ZyncSecretDatabasePasswordFieldName,
                   defaultInternalZyncDatabasePassword)
          EXCEPT !.val = defaultInternalZyncDatabasePassword]

\* mutant: the password is defaulted whatever the external-database toggle says
lookupDatabasePasswordAlwaysDefaulted(am, store, defaultInternalZyncDatabasePassword) ==
  FieldValue(store, ZyncSecretName, ZyncSecretDatabasePasswordFieldName,
             defaultInternalZyncDatabasePassword)

\* setSecretBasedOptions, lines 78-92: the database password lookup
lookupDatabasePassword(am, store, defaultInternalZyncDatabasePassword) ==
  IF am.externalDb
  THEN RequiredFieldValueFromRequiredSecret(store, ZyncSecretName,
                                            ZyncSecretDatabasePasswordFieldName)
  ELSE FieldValue(store, ZyncSecretName, ZyncSecretDatabasePasswordFieldName,
                  defaultInternalZyncDatabasePassword)

\* mutant: the key base is looked up in the secret of the system subsystem
SecretCasesInSystemSecret(am, zyncDatabasePassword, defSecretKeyBase, defAuthenticationToken) ==
  << [field |-> "SecretKeyBase", secretName |-> SystemAppSecretName,
      secretField |-> ZyncSecretKeyBaseFieldName,
      defValue |-> defSecretKeyBase, secretRequiredField |-> FALSE],
     [field |-> "AuthenticationToken", secretName |-> ZyncSecretName,
      secretField |-> ZyncSecretAuthenticationTokenFieldName,
      defValue |-> defAuthenticationToken, secretRequiredField |-> FALSE],
     [field |-> "DatabaseURL", secretName |-> ZyncSecretName,
      secretField |-> ZyncSecretDatabaseURLFieldName,
      defValue |-> DefaultZyncDatabaseURL(zyncDatabasePassword),
      secretRequiredField |-> am.externalDb] >>

\* setSecretBasedOptions, lines 95-123: the table of the remaining fields.
\* defSecretKeyBase and defAuthenticationToken are what the two random
\* generators return in this call.
SecretCases(am, zyncDatabasePassword, defSecretKeyBase, defAuthenticationToken) ==
  << [field |-> "SecretKeyBase", secretName |-> ZyncSecretName,
      secretField |-> ZyncSecretKeyBaseFieldName,
      defValue |-> defSecretKeyBase, secretRequiredField |-> FALSE],
     [field |-> "AuthenticationToken", secretName |-> ZyncSecretName,
      secretField |-> ZyncSecretAuthenticationTokenFieldName,
      defValue |-> defAuthenticationToken, secretRequiredField |-> FALSE],
     [field |-> "DatabaseURL", secretName |-> ZyncSecretName,
      secretField |-> ZyncSecretDatabaseURLFieldName,
      defValue |-> DefaultZyncDatabaseURL(zyncDatabasePassword),
      secretRequiredField |-> am.externalDb] >>

\* mutant: a defaultable field is set to its default even when it is stored
lookupCaseOverwrites(store, option) ==
  IF option.secretRequiredField
  THEN RequiredFieldValueFromRequiredSecret(store, option.secretName, option.secretField)
  ELSE FieldValue([store EXCEPT ![option.secretName].data[option.secretField] = Absent],
                  option.secretName, option.secretField, option.defValue)

\* setSecretBasedOptions, lines 126-138: one iteration of the loop
lookupCase(store, option) ==
  IF option.secretRequiredField
  THEN RequiredFieldValueFromRequiredSecret(store, option.secretName, option.secretField)
  ELSE FieldValue(store, option.secretName, option.secretField, option.defValue)

\* mutant: the per-container overrides are applied only in the enabled branch
setResourceRequirementsOptionsOverridesWhenEnabled(o, am) ==
  IF am.ResourceRequirementsEnabled
  THEN [o EXCEPT
          !.ContainerResourceRequirements =
             IF ~am.AppResources.isNil THEN am.AppResources.val
             ELSE DefaultZyncContainerResourceRequirements,
          !.QueContainerResourceRequirements =
             IF ~am.QueResources.isNil THEN am.QueResources.val
             ELSE DefaultZyncQueContainerResourceRequirements,
          !.DatabaseContainerResourceRequirements =
             IF ~am.DatabaseResources.isNil THEN am.DatabaseResources.val
             ELSE DefaultZyncDatabaseContainerResourceRequirements]
  ELSE [o EXCEPT
          !.ContainerResourceRequirements = EmptyResourceRequirements,
          !.QueContainerResourceRequirements = EmptyResourceRequirements,
          !.DatabaseContainerResourceRequirements = EmptyResourceRequirements]

\* setResourceRequirementsOptions
setResourceRequirementsOptions(o, am) ==
  LET base == IF am.ResourceRequirementsEnabled
              THEN [o EXCEPT
                      !.ContainerResourceRequirements = DefaultZyncContainerResourceRequirements,
                      !.QueContainerResourceRequirements = DefaultZyncQueContainerResourceRequirements,
                      !.DatabaseContainerResourceRequirements = DefaultZyncDatabaseContainerResourceRequirements]
              ELSE [o EXCEPT
                      !.ContainerResourceRequirements = EmptyResourceRequirements,
                      !.QueContainerResourceRequirements = EmptyResourceRequirements,
                      !.DatabaseContainerResourceRequirements = EmptyResourceRequirements]
  IN  [base EXCEPT
         !.ContainerResourceRequirements =
            IF ~am.AppResources.isNil THEN am.AppResources.val ELSE @,
         !.QueContainerResourceRequirements =
            IF ~am.QueResources.isNil THEN am.QueResources.val ELSE @,
         !.DatabaseContainerResourceRequirements =
            IF ~am.DatabaseResources.isNil THEN am.DatabaseResources.val ELSE @]

\* setNodeAffinityAndTolerationsOptions
setNodeAffinityAndTolerationsOptions(o, am) ==
  [o EXCEPT !.ZyncAffinity = am.AppAffinity, !.ZyncTolerations = am.AppTolerations,
            !.ZyncQueAffinity = am.QueAffinity, !.ZyncQueTolerations = am.QueTolerations,
            !.ZyncDatabaseAffinity = am.DatabaseAffinity,
            !.ZyncDatabaseTolerations = am.DatabaseTolerations]

\* setReplicas
setReplicas(o, am) ==
  [o EXCEPT !.ZyncReplicas = int32(am.AppReplicas),
            !.ZyncQueReplicas = int32(am.QueReplicas)]

commonLabels(am) ==
  [k \in {"app", "threescale_component"} |-> IF k = "app" THEN am.AppLabel ELSE "zync"]
commonZyncLabels(am) == SetLabel(commonLabels(am), "threescale_component_element", "zync")
commonZyncQueLabels(am) == SetLabel(commonLabels(am), "threescale_component_element", "zync-que")
commonZyncDatabaseLabels(am) == SetLabel(commonLabels(am), "threescale_component_element", "database")

zyncPodTemplateLabels(am, image) ==
  SetLabel(MergeLabels(MeteringLabels("zync", ParseVersion(image), ApplicationType),
                       commonZyncLabels(am)),
           "deploymentConfig", "zync")
\* mutant: the common labels are laid first and the metering labels over them
zyncQuePodTemplateLabelsMeteringLast(am, image) ==
  SetLabel(MergeLabels(commonZyncQueLabels(am),
                       MeteringLabels("zync-que", ParseVersion(image), ApplicationType)),
           "deploymentConfig", "zync-que")
zyncQuePodTemplateLabels(am, image) ==
  SetLabel(MergeLabels(MeteringLabels("zync-que", ParseVersion(image), ApplicationType),
                       commonZyncQueLabels(am)),
           "deploymentConfig", "zync-que")
zyncDatabasePodTemplateLabels(am, image) ==
  SetLabel(MergeLabels(MeteringLabels("zync-database", ParseVersion(image), ApplicationType),
                       commonZyncDatabaseLabels(am)),
           "deploymentConfig", "zync-database")

zyncQueServiceAccountImagePullSecrets(am) ==
  IF ~am.ImagePullSecrets.isNil THEN am.ImagePullSecrets.val
  ELSE DefaultZyncQueServiceAccountImagePullSecrets

\* GetZyncOptions, lines 52-64
setLabelsFlagsAndNamespace(o, am, imageOpts) ==
  [o EXCEPT
     !.CommonLabels = commonLabels(am),
     !.CommonZyncLabels = commonZyncLabels(am),
     !.CommonZyncQueLabels = commonZyncQueLabels(am),
     !.CommonZyncDatabaseLabels = commonZyncDatabaseLabels(am),
     !.ZyncPodTemplateLabels = zyncPodTemplateLabels(am, imageOpts.ZyncImage),
     !.ZyncQuePodTemplateLabels = zyncQuePodTemplateLabels(am, imageOpts.ZyncImage),
     !.ZyncDatabasePodTemplateLabels =
        zyncDatabasePodTemplateLabels(am, imageOpts.ZyncDatabasePostgreSQLImage),
     !.ZyncMetrics = TRUE,
     !.ZyncQueServiceAccountImagePullSecrets = zyncQueServiceAccountImagePullSecrets(am),
     !.Namespace = am.Namespace]

\* mutant: the partially built model is returned together with the error
ReturnErrorWithModel(o, stage, cause) ==
  [returned |-> TRUE, isNil |-> FALSE, model |-> o, err |-> Errorf(stage, cause)]

\* GetZyncOptions: "return nil, fmt.Errorf(...)" (lines 40, 49, 68)
ReturnError(o, stage, cause) ==
  [returned |-> TRUE, isNil |-> TRUE, model |-> NewZyncOptions, err |-> Errorf(stage, cause)]
\* GetZyncOptions: "return z.zyncOptions, nil" (line 70)
ReturnModel(o) ==
  [returned |-> TRUE, isNil |-> FALSE, model |-> o, err |-> NoError]

\* mutant: the result of Validate is dropped
validateAndReturnUnchecked(o) == ReturnModel(o)

\* GetZyncOptions lines 66-70: validate, then return the error or the model
validateAndReturn(o) ==
  IF Validate(o) # "nil" THEN ReturnError(o, "validating", Validate(o))
  ELSE ReturnModel(o)

\* setSecretBasedOptions as a function of the Secret Source it finds and of
\* the values the three random generators return in this call: the error
\* cause ("nil" for none), the options and the Secret Source it leaves
setSecretBasedOptions(o, am, store, defPassword, defSecretKeyBase, defAuthenticationToken) ==
  LET r0 == lookupDatabasePassword(am, store, defPassword)
      o0 == [o EXCEPT !.DatabasePassword = r0.val]
      cases == SecretCases(am, r0.val, defSecretKeyBase, defAuthenticationToken)
      r1 == lookupCase(r0.store, cases[1])
      o1 == [o0 EXCEPT ![cases[1].field] = r1.val]
      r2 == lookupCase(r1.store, cases[2])
      o2 == [o1 EXCEPT ![cases[2].field] = r2.val]
      r3 == lookupCase(r2.store, cases[3])
      o3 == [o2 EXCEPT ![cases[3].field] = r3.val]
  IN  IF r0.err # "nil" THEN [err |-> r0.err, o |-> o, store |-> r0.store]
      ELSE IF r1.err # "nil" THEN [err |-> r1.err, o |-> o0, store |-> r1.store]
      ELSE IF r2.err # "nil" THEN [err |-> r2.err, o |-> o1, store |-> r2.store]
      ELSE IF r3.err # "nil" THEN [err |-> r3.err, o |-> o2, store |-> r3.store]
      ELSE [err |-> validateZyncDatabaseURLAndPasswordFieldsConsistency(o3),
            o |-> o3, store |-> r3.store]

\* GetZyncOptions of a new resolver, as a function of the same inputs: what it
\* returns and the Secret Source it leaves
GetZyncOptions(am, store, defPassword, defSecretKeyBase, defAuthenticationToken) ==
  LET z == [NewZyncOptions EXCEPT !.ImageTag = ThreescaleRelease,
                                  !.DatabaseImageTag = ThreescaleRelease]
      s == setSecretBasedOptions(z, am, store, defPassword, defSecretKeyBase,
                                 defAuthenticationToken)
      o == setReplicas(setNodeAffinityAndTolerationsOptions(
                         setResourceRequirementsOptions(s.o, am), am), am)
      imageOpts == GetAmpImagesOptions(am)
  IN  IF s.err # "nil"
      THEN [result |-> ReturnError(s.o, "reading secret options", s.err), store |-> s.store]
      ELSE IF imageOpts.err # "nil"
      THEN [result |-> ReturnError(o, "reading image options", imageOpts.err),
            store |-> s.store]
      ELSE [result |-> validateAndReturn(setLabelsFlagsAndNamespace(o, am, imageOpts)),
            store |-> s.store]

\* -------------------------------------------- package prometheusrules
\* a map[string]string that may be nil
NilMap == [isNil |-> TRUE, m |-> EmptyLabels]
MakeMap(m) == [isNil |-> FALSE, m |-> m]

\* component.NewApicastOptions(): every field at its zero value
NewApicastOptions ==
  [ CommonLabels |-> NilMap, Namespace |-> "",
    ManagementAPI |-> "", OpenSSLVerify |-> "", ResponseCodes |-> "", ImageTag |-> "",
    CommonStagingLabels |-> NilMap, CommonProductionLabels |-> NilMap,
    StagingPodTemplateLabels |-> NilMap, ProductionPodTemplateLabels |-> NilMap ]

\* ApicastOptions.Validate: required strings are not empty, required maps not nil
ApicastOptionsValid(o) ==
  /\ o.ManagementAPI # "" /\ o.OpenSSLVerify # "" /\ o.ResponseCodes # ""
  /\ o.ImageTag # "" /\ o.Namespace # ""
  /\ ~o.CommonLabels.isNil
  /\ ~o.CommonStagingLabels.isNil /\ ~o.CommonProductionLabels.isNil
  /\ ~o.StagingPodTemplateLabels.isNil /\ ~o.ProductionPodTemplateLabels.isNil

commonApicastLabels ==
  [k \in {"app", "threescale_component"} |->
     IF k = "app" THEN Default3scaleAppLabel ELSE "apicast"]

\* mutant: the ImageTag placeholder is not set
apicastOptionsWithoutImageTag ==
  LET o == [NewApicastOptions EXCEPT
              !.CommonLabels = MakeMap(commonApicastLabels),
              !.Namespace = "__NAMESPACE__",
              !.ManagementAPI = "_", !.OpenSSLVerify = "_",
              !.ResponseCodes = "_",
              !.CommonStagingLabels = MakeMap(EmptyLabels),
              !.CommonProductionLabels = MakeMap(EmptyLabels),
              !.StagingPodTemplateLabels = MakeMap(EmptyLabels),
              !.ProductionPodTemplateLabels = MakeMap(EmptyLabels)]
  IN  [options |-> o, err |-> IF ApicastOptionsValid(o) THEN "nil" ELSE "Validation"]

\* apicastOptions(): (options, err)
apicastOptions ==
  LET o == [NewApicastOptions EXCEPT
              !.CommonLabels = MakeMap(commonApicastLabels),
              !.Namespace = "__NAMESPACE__",
              !.ManagementAPI = "_", !.OpenSSLVerify = "_",
              !.ResponseCodes = "_", !.ImageTag = "_",
              !.CommonStagingLabels = MakeMap(EmptyLabels),
              !.CommonProductionLabels = MakeMap(EmptyLabels),
              !.StagingPodTemplateLabels = MakeMap(EmptyLabels),
              !.ProductionPodTemplateLabels = MakeMap(EmptyLabels)]
  IN  [options |-> o, err |-> IF ApicastOptionsValid(o) THEN "nil" ELSE "Validation"]

ApicastAlerts == <<"ThreescaleApicastJobDown", "ThreescaleApicastRequestTime",
                   "ThreescaleApicastHttp4xxErrorRate", "ThreescaleApicastLatencyHigh",
                   "ThreescaleApicastWorkerRestart">>

\* component.Apicast.ApicastPrometheusRules(): the alerting rules of the
\* apicast rule group, each an expression over the namespace of the options
ApicastPrometheusRules(options) ==
  [ name |-> "apicast",
    labels |-> options.CommonLabels.m,
    group |-> <<options.Namespace, "apicast.rules">>,
    rules |-> [i \in DOMAIN ApicastAlerts |->
                 [alert |-> ApicastAlerts[i], namespace |-> options.Namespace]] ]

\* ApicastPrometheusRuleFactory.Type()
ApicastType == "apicast"

\* ApicastPrometheusRuleFactory.PrometheusRule(): panics when apicastOptions fails
PrometheusRule ==
  LET r == apicastOptions
  IN  IF r.err # "nil"
      THEN [panicked |-> TRUE, Type |-> ApicastType,
            rule |-> ApicastPrometheusRules(NewApicastOptions)]
      ELSE [panicked |-> FALSE, Type |-> ApicastType,
            rule |-> ApicastPrometheusRules(r.options)]

\* The init functions of package prometheusrules, one per rule file, named
\* and ordered as the rule files are listed in PROMETHEUS_RULES (Makefile:42).
InitFunctions == <<"backend-worker", "backend-listener", "system-app", "system-sidekiq",
                   "zync", "zync-que", "threescale-kube-state-metrics", "apicast">>

\* mutant: the registry is assigned instead of appended to
initAssigns(factories, factory) == <<factory>>

\* func init(): PrometheusRuleFactories = append(PrometheusRuleFactories, New...Factory)
init(factories, factory) == Append(factories, factory)

\* ------------------------------------------------------ the environment
\* What the zync secret may hold when the operator starts: nothing, or any of
\* these passwords and URLs (written by an earlier run or by an administrator).
StoredPasswords ==
  { <<>>, <<"a", "1">>, <<"p", "/", "w">>, <<"p", "@", "w">>, <<"%", "4", "0">> }
StoredURLs ==
  { DefaultZyncDatabaseURL(<<"a", "1">>),
    DefaultZyncDatabaseURL(<<"z", "9">>),
    DefaultZyncDatabaseURL(<<"p", "/", "w">>),
    DefaultZyncDatabaseURL(<<"%", "4", "0">>),
    DefaultZyncDatabaseURL(<<"p", "%", "4", "0", "w">>),
    DefaultZyncDatabaseURL(<<>>),
    <<"p","o","s","t","g","r","e","s","q","l",":","/","/","z","y","n","c","@","d","b",":","5","4","3","2","/","z">>,
    <<"p","o","s","t","g","r","e","s","q","l",":","/","/","d","b",":","5","4","3","2","/","z">>,
    <<"p","o","s","t","g","r","e","s","q","l",":","/","/","z","y","n","c",":","a","1","@",
      "d","b","%","4","1",":","5","4","3","2","/","z">>,
    DefaultZyncDatabaseURL(<<"a", "1">>) \o <<Chr(10)>> }
StoredKeyAndToken ==
  { <<Absent, Absent>>,
    <<Stored(<<"k", "0">>), Stored(<<"t", "0">>)>>,
    <<Stored(<<>>), Stored(<<"t", "0">>)>> }

InitialStores ==
  {EmptyStore} \cup
  { [EmptyStore EXCEPT ![ZyncSecretName] =
       [exists |-> TRUE,
        data |-> [f \in ZyncSecretFields |->
                    CASE f = ZyncSecretDatabasePasswordFieldName -> pw
                      [] f = ZyncSecretDatabaseURLFieldName -> url
                      [] f = ZyncSecretKeyBaseFieldName -> kt[1]
                      [] OTHER -> kt[2]]]] :
      pw \in {Absent} \cup {Stored(v) : v \in StoredPasswords},
      url \in {Absent} \cup {Stored(v) : v \in StoredURLs},
      kt \in StoredKeyAndToken }

MeteringKeySets == { {}, {"app", "threescale_component_element", "deploymentConfig"} }

NoAPIManager == CHOOSE am \in APIManagers : TRUE

\* a secret as an earlier successful resolution leaves it
SettledStore ==
  [EmptyStore EXCEPT ![ZyncSecretName] =
     [exists |-> TRUE,
      data |-> [f \in ZyncSecretFields |->
                  CASE f = ZyncSecretDatabasePasswordFieldName -> Stored(<<"a", "1">>)
                    [] f = ZyncSecretDatabaseURLFieldName ->
                         Stored(DefaultZyncDatabaseURL(<<"a", "1">>))
                    [] f = ZyncSecretKeyBaseFieldName -> Stored(<<"k", "0">>)
                    [] OTHER -> Stored(<<"t", "0">>)]]]

\* The environments a run starts in.  The secret lookups read the store and
\* the external-database toggle only, and the resource and label steps read
\* the resource fields, the images and the metering helper only, so the two
\* groups of inputs are varied in turn: every store with every toggle and
\* image outcome, and every resource, replica and metering setting on an empty
\* and on a settled store (the two replica counts are both within or both
\* beyond 32 bits).
Environments ==
  { [apimanager |-> am, meteringKeys |-> {}, secrets |-> st] :
      am \in { a \in APIManagers :
                 /\ a.ResourceRequirementsEnabled
                 /\ a.AppResources.isNil /\ a.QueResources.isNil
                 /\ a.DatabaseResources.isNil
                 /\ a.AppReplicas = Int64(0, 1) /\ a.QueReplicas = Int64(0, 1) },
      st \in InitialStores }
  \cup
  { [apimanager |-> am, meteringKeys |-> mk, secrets |-> st] :
      am \in { a \in APIManagers :
                 /\ a.imagesOk
                 /\ (a.AppReplicas = Int64(0, 1)) <=> (a.QueReplicas = Int64(0, 1)) },
      mk \in MeteringKeySets,
      st \in {EmptyStore, SettledStore} }

\* ------------------------------------------------------------- actions
\* no FieldValue call of the resolver is between its lookup and its write
NoPending ==
  [active |-> FALSE, secret |-> "", field |-> "", dest |-> "", val |-> <<>>, next |-> ""]

Init ==
  /\ phase = "init"
  /\ initsRun = 0
  /\ PrometheusRuleFactories = <<>>
  /\ bundles = <<>>
  /\ apimanager = NoAPIManager
  /\ meteringKeys = {}
  /\ secrets = EmptyStore
  /\ pc = [p \in Resolvers |-> "new"]
  /\ zyncOptions = [p \in Resolvers |-> NewZyncOptions]
  /\ result = [p \in Resolvers |-> NotReturned]
  /\ steps = [p \in Resolvers |-> <<>>]
  /\ calls = [p \in Resolvers |-> <<>>]
  /\ storeAtStart = [p \in Resolvers |-> EmptyStore]
  /\ pending = [p \in Resolvers |-> NoPending]
  /\ systemPc = "new"
  /\ systemOptions = [SecretKeyBase |-> <<>>]
  /\ systemPending = <<>>
  /\ systemStoreAtStart = EmptyStore

\* One init function of package prometheusrules runs (Go runs them one after
\* the other, before main).
packageInit ==
  /\ phase = "init"
  /\ initsRun < Len(InitFunctions)
  /\ PrometheusRuleFactories' = init(PrometheusRuleFactories, InitFunctions[initsRun + 1])
  /\ initsRun' = initsRun + 1
  /\ UNCHANGED <<phase, bundles, envVars, secrets, resolverVars, pending, systemVars>>

\* main starts once every init function has returned; the manager finds the
\* APIManager resource and the namespace's secrets as they are.
StartManager ==
  /\ phase = "init"
  /\ initsRun = Len(InitFunctions)
  /\ phase' = "main"
  /\ \E env \in Environments :
       /\ apimanager' = env.apimanager
       /\ meteringKeys' = env.meteringKeys
       /\ secrets' = env.secrets
  /\ UNCHANGED <<initsRun, PrometheusRuleFactories, bundles, resolverVars, pending, systemVars>>

\* The apicast factory is looked up in the registry and invoked:
\* NewApicastPrometheusRuleFactory().PrometheusRule()
InvokeFactory ==
  /\ phase = "main"
  /\ Len(bundles) < MaxInvocations
  /\ \E i \in DOMAIN PrometheusRuleFactories : PrometheusRuleFactories[i] = ApicastType
  /\ bundles' = Append(bundles, PrometheusRule)
  /\ UNCHANGED <<phase, initsRun, PrometheusRuleFactories, envVars, secrets, resolverVars,
                 pending, systemVars>>

\* NewZyncOptionsProvider and GetZyncOptions lines 35-36 (step 1)
NewResolver(p) ==
  /\ phase = "main"
  /\ pc[p] = "new"
  /\ zyncOptions' = [zyncOptions EXCEPT ![p] =
        [NewZyncOptions EXCEPT !.ImageTag = ThreescaleRelease,
                               !.DatabaseImageTag = ThreescaleRelease]]
  /\ storeAtStart' = [storeAtStart EXCEPT ![p] = secrets]
  /\ steps' = [steps EXCEPT ![p] = <<"identity">>]
  /\ pc' = [pc EXCEPT ![p] = "password"]
  /\ UNCHANGED <<registryVars, envVars, secrets, result, calls, pending, systemVars>>

\* resolvers run one after the other
NewResolverInTurn(p) ==
  /\ \A q \in 1..(p - 1) : pc[q] = "returned"
  /\ NewResolver(p)

CallRecord(required, secretField, r, store) ==
  [op |-> IF required THEN "RequiredFieldValueFromRequiredSecret" ELSE "FieldValue",
   field |-> secretField, err |-> r.err, wrote |-> r.store # store]

\* setSecretBasedOptions lines 78-93: the database password (first call of step 2)
ReadDatabasePassword(p) ==
  /\ pc[p] = "password"
  /\ \E def \in (IF apimanager.externalDb THEN {<<>>} ELSE GenPasswords) :
       LET r == lookupDatabasePassword(apimanager, secrets, def)
       IN  /\ secrets' = r.store
           /\ calls' = [calls EXCEPT ![p] =
                 Append(@, CallRecord(apimanager.externalDb,
                                      ZyncSecretDatabasePasswordFieldName, r, secrets))]
           /\ steps' = [steps EXCEPT ![p] = Append(@, "secrets")]
           /\ IF r.err # "nil"
              THEN /\ result' = [result EXCEPT ![p] =
                         ReturnError(zyncOptions[p], "reading secret options", r.err)]
                   /\ pc' = [pc EXCEPT ![p] = "returned"]
                   /\ UNCHANGED zyncOptions
              ELSE /\ zyncOptions' = [zyncOptions EXCEPT ![p].DatabasePassword = r.val]
                   /\ pc' = [pc EXCEPT ![p] = "case1"]
                   /\ UNCHANGED result
  /\ UNCHANGED <<registryVars, envVars, storeAtStart, pending, systemVars>>

CasePc == <<"case1", "case2", "case3", "consistency">>

\* setSecretBasedOptions lines 125-139: iteration i of the loop over the table.
\* The table is built once, before the loop; its random defaults are drawn here,
\* in the iteration that uses them, which yields the same values since the
\* generators read no state, and its URL default is a function of the
\* DatabasePassword set at line 93.
ReadCase(p, i) ==
  /\ pc[p] = CasePc[i]
  /\ \E dk \in GenSecretKeyBases, dt \in GenAuthenticationTokens :
       LET option == SecretCases(apimanager, zyncOptions[p].DatabasePassword, dk, dt)[i]
           r == lookupCase(secrets, option)
       IN  /\ secrets' = r.store
           /\ calls' = [calls EXCEPT ![p] =
                 Append(@, CallRecord(option.secretRequiredField, option.secretField,
                                      r, secrets))]
           /\ IF r.err # "nil"
              THEN /\ result' = [result EXCEPT ![p] =
                         ReturnError(zyncOptions[p], "reading secret options", r.err)]
                   /\ pc' = [pc EXCEPT ![p] = "returned"]
                   /\ UNCHANGED zyncOptions
              ELSE /\ zyncOptions' = [zyncOptions EXCEPT ![p][option.field] = r.val]
                   /\ pc' = [pc EXCEPT ![p] = CasePc[i + 1]]
                   /\ UNCHANGED result
  /\ UNCHANGED <<registryVars, envVars, steps, storeAtStart, pending, systemVars>>

\* setSecretBasedOptions lines 141-146 and GetZyncOptions lines 38-41
CheckConsistency(p) ==
  /\ pc[p] = "consistency"
  /\ LET cause == validateZyncDatabaseURLAndPasswordFieldsConsistency(zyncOptions[p])
     IN  IF cause # "nil"
         THEN /\ result' = [result EXCEPT ![p] =
                    ReturnError(zyncOptions[p], "reading secret options", cause)]
              /\ pc' = [pc EXCEPT ![p] = "returned"]
         ELSE /\ pc' = [pc EXCEPT ![p] = "resources"]
              /\ UNCHANGED result
  /\ UNCHANGED <<registryVars, envVars, secrets, zyncOptions, steps, calls, storeAtStart,
                 pending, systemVars>>

\* mutant: the resource step stores a value in the zync secret
SetSpecOptionsWritingSecret(p) ==
  /\ pc[p] = "resources"
  /\ zyncOptions' = [zyncOptions EXCEPT ![p] =
        setReplicas(setNodeAffinityAndTolerationsOptions(
                      setResourceRequirementsOptions(@, apimanager), apimanager),
                    apimanager)]
  /\ secrets' = [secrets EXCEPT ![ZyncSecretName].data[ZyncSecretKeyBaseFieldName] =
                                    Stored(<<"r">>)]
  /\ steps' = [steps EXCEPT ![p] = @ \o <<"resources", "scheduling", "replicas">>]
  /\ pc' = [pc EXCEPT ![p] = "images"]
  /\ UNCHANGED <<registryVars, envVars, result, calls, storeAtStart, pending, systemVars>>

\* GetZyncOptions lines 43-45 (steps 3 to 5)
SetSpecOptions(p) ==
  /\ pc[p] = "resources"
  /\ zyncOptions' = [zyncOptions EXCEPT ![p] =
        setReplicas(setNodeAffinityAndTolerationsOptions(
                      setResourceRequirementsOptions(@, apimanager), apimanager),
                    apimanager)]
  /\ steps' = [steps EXCEPT ![p] = @ \o <<"resources", "scheduling", "replicas">>]
  /\ pc' = [pc EXCEPT ![p] = "images"]
  /\ UNCHANGED <<registryVars, envVars, secrets, result, calls, storeAtStart, pending,
                 systemVars>>

\* GetZyncOptions lines 47-64 (steps 6 to 10)
SetImageBasedOptions(p) ==
  /\ pc[p] = "images"
  /\ LET imageOpts == GetAmpImagesOptions(apimanager)
     IN  IF imageOpts.err # "nil"
         THEN /\ result' = [result EXCEPT ![p] =
                    ReturnError(zyncOptions[p], "reading image options", imageOpts.err)]
              /\ steps' = [steps EXCEPT ![p] = Append(@, "images")]
              /\ pc' = [pc EXCEPT ![p] = "returned"]
              /\ UNCHANGED zyncOptions
         ELSE /\ zyncOptions' = [zyncOptions EXCEPT ![p] =
                    setLabelsFlagsAndNamespace(@, apimanager, imageOpts)]
              /\ steps' = [steps EXCEPT ![p] =
                    @ \o <<"images", "labels", "flags", "pullSecrets", "namespace">>]
              /\ pc' = [pc EXCEPT ![p] = "validate"]
              /\ UNCHANGED result
  /\ UNCHANGED <<registryVars, envVars, secrets, calls, storeAtStart, pending, systemVars>>

\* GetZyncOptions lines 66-70 (step 11)
ValidateAndReturn(p) ==
  /\ pc[p] = "validate"
  /\ result' = [result EXCEPT ![p] = validateAndReturn(zyncOptions[p])]
  /\ steps' = [steps EXCEPT ![p] = Append(@, "validate")]
  /\ pc' = [pc EXCEPT ![p] = "returned"]
  /\ UNCHANGED <<registryVars, envVars, secrets, zyncOptions, calls, storeAtStart, pending,
                 systemVars>>

Resolve(p) ==
  \/ ReadDatabasePassword(p)
  \/ \E i \in 1..3 : ReadCase(p, i)
  \/ CheckConsistency(p)
  \/ SetSpecOptions(p)
  \/ SetImageBasedOptions(p)
  \/ ValidateAndReturn(p)

Next ==
  \/ packageInit
  \/ StartManager
  \/ InvokeFactory
  \/ \E p \in Resolvers : NewResolverInTurn(p)
  \/ \E p \in Resolvers : Resolve(p)

Spec == Init /\ [][Next]_vars

\* ------------------------------------- resolvers that run concurrently
\* setSecretBasedOptions lines 85-93, the FieldValue call seen from another
\* resolver: the lookup has found the password absent and the call will return
\* the default, which the call holds; its write is still to come, and line 93
\* assigns the option only after the call has returned.
LookupDatabasePasswordAbsent(p) ==
  /\ pc[p] = "password"
  /\ \E def \in (IF apimanager.externalDb THEN {<<>>} ELSE GenPasswords) :
       LET r == lookupDatabasePassword(apimanager, secrets, def)
       IN  /\ r.err = "nil"
           /\ r.store # secrets
           /\ pending' = [pending EXCEPT ![p] =
                 [active |-> TRUE, secret |-> ZyncSecretName,
                  field |-> ZyncSecretDatabasePasswordFieldName,
                  dest |-> "DatabasePassword",
                  val |-> r.val, next |-> "case1"]]
  /\ steps' = [steps EXCEPT ![p] = Append(@, "secrets")]
  /\ pc' = [pc EXCEPT ![p] = "persist"]
  /\ UNCHANGED <<registryVars, envVars, secrets, zyncOptions, result, calls, storeAtStart,
                 systemVars>>

\* setSecretBasedOptions lines 125-139, iteration i, when its FieldValue call
\* has found the field absent: the call holds the default, its write is to
\* come, and line 137 assigns the option only after the call has returned.
LookupCaseAbsent(p, i) ==
  /\ pc[p] = CasePc[i]
  /\ \E dk \in GenSecretKeyBases, dt \in GenAuthenticationTokens :
       LET option == SecretCases(apimanager, zyncOptions[p].DatabasePassword, dk, dt)[i]
           r == lookupCase(secrets, option)
       IN  /\ r.err = "nil"
           /\ r.store # secrets
           /\ pending' = [pending EXCEPT ![p] =
                 [active |-> TRUE, secret |-> option.secretName,
                  field |-> option.secretField,
                  dest |-> option.field,
                  val |-> r.val, next |-> CasePc[i + 1]]]
  /\ pc' = [pc EXCEPT ![p] = "persist"]
  /\ UNCHANGED <<registryVars, envVars, secrets, zyncOptions, result, steps, calls,
                 storeAtStart, systemVars>>

\* the write of the FieldValue call that found its field absent, its return,
\* and the assignment of the returned value to the option (lines 93 and 137)
PersistPending(p) ==
  /\ pc[p] = "persist"
  /\ secrets' = PersistDefault(secrets, pending[p].secret, pending[p].field, pending[p].val)
  /\ zyncOptions' = [zyncOptions EXCEPT ![p][pending[p].dest] = pending[p].val]
  /\ calls' = [calls EXCEPT ![p] =
        Append(@, [op |-> "FieldValue", field |-> pending[p].field,
                   err |-> "nil", wrote |-> TRUE])]
  /\ pc' = [pc EXCEPT ![p] = pending[p].next]
  /\ pending' = [pending EXCEPT ![p] = NoPending]
  /\ UNCHANGED <<registryVars, envVars, result, steps, storeAtStart, systemVars>>

ResolveCallByCall(p) ==
  \/ LookupDatabasePasswordAbsent(p)
  \/ \E i \in 1..3 : LookupCaseAbsent(p, i)
  \/ PersistPending(p)

\* the namespace holds no secret and the zync database is internal
EmptyNamespaceEnvironments ==
  { env \in Environments :
      /\ ~env.apimanager.externalDb
      /\ env.apimanager.imagesOk
      /\ env.apimanager.AppReplicas = Int64(0, 1)
      /\ env.secrets = EmptyStore
      /\ env.meteringKeys = {}
      /\ env.apimanager.ResourceRequirementsEnabled
      /\ env.apimanager.AppResources.isNil /\ env.apimanager.QueResources.isNil
      /\ env.apimanager.DatabaseResources.isNil }

StartManagerOnEmptyNamespace ==
  /\ phase = "init"
  /\ initsRun = Len(InitFunctions)
  /\ phase' = "main"
  /\ \E env \in EmptyNamespaceEnvironments :
       /\ apimanager' = env.apimanager
       /\ meteringKeys' = env.meteringKeys
       /\ secrets' = env.secrets
  /\ UNCHANGED <<initsRun, PrometheusRuleFactories, bundles, resolverVars, pending,
                 systemVars>>

\* ------------------------------------ the resolver of another subsystem
\* The resolver of the system subsystem, reduced to one secret-backed field:
\* FieldValue on the SECRET_KEY_BASE field of its own secret, system-app.
NewSystemResolver ==
  /\ phase = "main"
  /\ systemPc = "new"
  /\ systemPc' = "secretKeyBase"
  /\ systemStoreAtStart' = secrets
  /\ UNCHANGED <<registryVars, envVars, secrets, resolverVars, pending, systemOptions,
                 systemPending>>

\* the FieldValue call as one step
SystemReadSecretKeyBase ==
  /\ systemPc = "secretKeyBase"
  /\ \E def \in GenSecretKeyBases :
       LET r == FieldValue(secrets, SystemAppSecretName, SystemSecretKeyBaseFieldName, def)
       IN  /\ secrets' = r.store
           /\ systemOptions' = [systemOptions EXCEPT !.SecretKeyBase = r.val]
  /\ systemPc' = "returned"
  /\ UNCHANGED <<registryVars, envVars, resolverVars, pending, systemPending,
                 systemStoreAtStart>>

\* the FieldValue call has found the field absent; its write is to come
SystemLookupAbsent ==
  /\ systemPc = "secretKeyBase"
  /\ \E def \in GenSecretKeyBases :
       LET r == FieldValue(secrets, SystemAppSecretName, SystemSecretKeyBaseFieldName, def)
       IN  /\ r.store # secrets
           /\ systemPending' = r.val
  /\ systemPc' = "persist"
  /\ UNCHANGED <<registryVars, envVars, secrets, resolverVars, pending, systemOptions,
                 systemStoreAtStart>>

\* the write of that call, its return, and the assignment of the option
SystemPersist ==
  /\ systemPc = "persist"
  /\ secrets' = PersistDefault(secrets, SystemAppSecretName, SystemSecretKeyBaseFieldName,
                               systemPending)
  /\ systemOptions' = [systemOptions EXCEPT !.SecretKeyBase = systemPending]
  /\ systemPending' = <<>>
  /\ systemPc' = "returned"
  /\ UNCHANGED <<registryVars, envVars, resolverVars, pending, systemStoreAtStart>>

ResolveSystem ==
  \/ SystemReadSecretKeyBase
  \/ SystemLookupAbsent
  \/ SystemPersist

\* the system-app secret as an earlier resolution of the system resolver left it
SettledSystemSecret ==
  [exists |-> TRUE,
   data |-> [f \in ZyncSecretFields |->
               IF f = SystemSecretKeyBaseFieldName THEN Stored(<<"s", "0">>) ELSE Absent]]

\* every zync secret whose key base and token are absent or both stored, in
\* external and internal database mode, with and without a system-app secret
SubsystemEnvironments ==
  { [env EXCEPT !.secrets[SystemAppSecretName] = sys] :
      env \in { e \in Environments :
                  /\ e.meteringKeys = {}
                  /\ e.apimanager.imagesOk
                  /\ e.apimanager.AppReplicas = Int64(0, 1)
                  /\ e.apimanager.ResourceRequirementsEnabled
                  /\ e.apimanager.AppResources.isNil /\ e.apimanager.QueResources.isNil
                  /\ e.apimanager.DatabaseResources.isNil
                  /\ LET d == e.secrets[ZyncSecretName].data
                     IN  d[ZyncSecretKeyBaseFieldName].present
                           => d[ZyncSecretKeyBaseFieldName].val # <<>> },
      sys \in {NoSecret, SettledSystemSecret} }

StartManagerWithSubsystems ==
  /\ phase = "init"
  /\ initsRun = Len(InitFunctions)
  /\ phase' = "main"
  /\ \E env \in SubsystemEnvironments :
       /\ apimanager' = env.apimanager
       /\ meteringKeys' = env.meteringKeys
       /\ secrets' = env.secrets
  /\ UNCHANGED <<initsRun, PrometheusRuleFactories, bundles, resolverVars, pending,
                 systemVars>>

\* The zync resolvers run one after the other while the system resolver runs
\* at any time, their Secret Source calls interleaved.
NextSubsystems ==
  \/ packageInit
  \/ StartManagerWithSubsystems
  \/ \E p \in Resolvers : NewResolverInTurn(p)
  \/ \E p \in Resolvers : Resolve(p)
  \/ \E p \in Resolvers : ResolveCallByCall(p)
  \/ NewSystemResolver
  \/ ResolveSystem

SpecSubsystems == Init /\ [][NextSubsystems]_vars

\* Resolvers of the zync subsystem started at any time, their Secret Source
\* calls interleaved.
NextConcurrent ==
  \/ packageInit
  \/ StartManagerOnEmptyNamespace
  \/ \E p \in Resolvers : NewResolver(p)
  \/ \E p \in Resolvers : Resolve(p)
  \/ \E p \in Resolvers : ResolveCallByCall(p)

SpecConcurrent == Init /\ [][NextConcurrent]_vars

\* ------------------------------------------------------------- properties
ZyncSecretOf(store) == store[ZyncSecretName]
\* the URL parses and carries a password in its user-info
HasEmbeddedPassword(url) ==
  LET u == urlParse(url) IN ~u.err /\ ~u.User.isNil /\ u.User.passwordSet
EmbeddedPassword(url) == urlParse(url).User.password
Succeeded(p) == result[p].returned /\ ~result[p].isNil /\ result[p].err = NoError
FailedWith(p, stage, cause) ==
  result[p].returned /\ result[p].isNil /\ result[p].err = Errorf(stage, cause)

StoredMismatch(store) ==
  LET d == ZyncSecretOf(store).data
  IN  /\ ZyncSecretOf(store).exists
      /\ d[ZyncSecretDatabasePasswordFieldName].present
      /\ d[ZyncSecretDatabaseURLFieldName].present
      /\ HasEmbeddedPassword(d[ZyncSecretDatabaseURLFieldName].val)
      /\ EmbeddedPassword(d[ZyncSecretDatabaseURLFieldName].val)
           # d[ZyncSecretDatabasePasswordFieldName].val

\* C2: when the zync secret holds a password and a parseable URL with a
\* different embedded password, the resolution returns no model and the
\* inconsistency error, in external and in internal database mode.
C2_MismatchIsInconsistency ==
  \A p \in Resolvers :
    (result[p].returned /\ StoredMismatch(storeAtStart[p]))
    => FailedWith(p, "reading secret options", "Inconsistency")

C2_Witness ==
  \E p \in Resolvers :
    /\ result[p].returned /\ StoredMismatch(storeAtStart[p]) /\ apimanager.externalDb
    /\ FailedWith(p, "reading secret options", "Inconsistency")

\* C3: with external database enabled and no zync secret, the resolution fails
\* with NotFound on its first Secret Source call, a read that generates and
\* writes nothing, and the Secret Source still holds no zync secret.
C3_ExternalDatabaseNeedsSecret ==
  \A p \in Resolvers :
    (result[p].returned /\ apimanager.externalDb /\ ~ZyncSecretOf(storeAtStart[p]).exists)
    => /\ FailedWith(p, "reading secret options", "NotFound")
       /\ calls[p] = << [op |-> "RequiredFieldValueFromRequiredSecret",
                         field |-> ZyncSecretDatabasePasswordFieldName,
                         err |-> "NotFound", wrote |-> FALSE] >>
       /\ secrets = EmptyStore

C3_Witness ==
  \E p \in Resolvers :
    /\ result[p].returned /\ apimanager.externalDb /\ ~ZyncSecretOf(storeAtStart[p]).exists
    /\ FailedWith(p, "reading secret options", "NotFound")

\* the requirement a container resolves to
ExpectedResources(override, enabled, default) ==
  IF ~override.isNil THEN override.val
  ELSE IF enabled THEN default ELSE EmptyResourceRequirements

\* C4: once the resource step has run, each container's requirement is its own
\* override when present, else the container's default when the toggle is
\* enabled, else the empty requirement.
C4_ResourceOverridePrecedence ==
  \A p \in Resolvers :
    (pc[p] \in {"images", "validate"} \/ Succeeded(p))
    => LET o == IF Succeeded(p) THEN result[p].model ELSE zyncOptions[p]
           en == apimanager.ResourceRequirementsEnabled
       IN  /\ o.ContainerResourceRequirements =
                ExpectedResources(apimanager.AppResources, en,
                                  DefaultZyncContainerResourceRequirements)
           /\ o.QueContainerResourceRequirements =
                ExpectedResources(apimanager.QueResources, en,
                                  DefaultZyncQueContainerResourceRequirements)
           /\ o.DatabaseContainerResourceRequirements =
                ExpectedResources(apimanager.DatabaseResources, en,
                                  DefaultZyncDatabaseContainerResourceRequirements)

C4_Witness ==
  \E p \in Resolvers :
    /\ Succeeded(p)
    /\ ~apimanager.ResourceRequirementsEnabled
    /\ apimanager.AppResources.isNil /\ ~apimanager.QueResources.isNil
    /\ apimanager.DatabaseResources.isNil
    /\ result[p].model.ContainerResourceRequirements = EmptyResourceRequirements
    /\ result[p].model.QueContainerResourceRequirements = CustomResources.val

\* labels is metering, then common, then deploymentConfig = tier, later wins
LayeredLabels(labels, metering, common, tier) ==
  /\ DOMAIN labels = DOMAIN metering \cup DOMAIN common \cup {"deploymentConfig"}
  /\ labels["deploymentConfig"] = tier
  /\ \A k \in DOMAIN common \ {"deploymentConfig"} : labels[k] = common[k]
  /\ \A k \in DOMAIN metering \ (DOMAIN common \cup {"deploymentConfig"}) :
        labels[k] = metering[k]

\* C5: each pod-template label map of a returned model is the layered merge
\* of the metering labels, the common labels of its group and the
\* deploymentConfig entry, and two resolutions return the same maps.
C5_PodTemplateLabelsLayered ==
  \A p \in Resolvers :
    Succeeded(p) =>
      LET o == result[p].model
          img == GetAmpImagesOptions(apimanager)
      IN  /\ LayeredLabels(o.ZyncPodTemplateLabels,
                MeteringLabels("zync", ParseVersion(img.ZyncImage), ApplicationType),
                [k \in {"app", "threescale_component", "threescale_component_element"} |->
                   CASE k = "app" -> apimanager.AppLabel
                     [] k = "threescale_component" -> "zync"
                     [] OTHER -> "zync"],
                "zync")
          /\ LayeredLabels(o.ZyncQuePodTemplateLabels,
                MeteringLabels("zync-que", ParseVersion(img.ZyncImage), ApplicationType),
                [k \in {"app", "threescale_component", "threescale_component_element"} |->
                   CASE k = "app" -> apimanager.AppLabel
                     [] k = "threescale_component" -> "zync"
                     [] OTHER -> "zync-que"],
                "zync-que")
          /\ LayeredLabels(o.ZyncDatabasePodTemplateLabels,
                MeteringLabels("zync-database",
                               ParseVersion(img.ZyncDatabasePostgreSQLImage), ApplicationType),
                [k \in {"app", "threescale_component", "threescale_component_element"} |->
                   CASE k = "app" -> apimanager.AppLabel
                     [] k = "threescale_component" -> "zync"
                     [] OTHER -> "database"],
                "zync-database")
          /\ \A q \in Resolvers :
               Succeeded(q) =>
                 /\ result[q].model.ZyncPodTemplateLabels = o.ZyncPodTemplateLabels
                 /\ result[q].model.ZyncQuePodTemplateLabels = o.ZyncQuePodTemplateLabels
                 /\ result[q].model.ZyncDatabasePodTemplateLabels
                      = o.ZyncDatabasePodTemplateLabels

C5_Witness ==
  /\ \A p \in Resolvers : Succeeded(p)
  /\ "app" \in meteringKeys
  /\ result[1].model.ZyncQuePodTemplateLabels["app"] = apimanager.AppLabel
  /\ result[1].model.ZyncQuePodTemplateLabels["deploymentConfig"] = "zync-que"
  /\ result[1].model.ZyncQuePodTemplateLabels["rht.subcomp"] = "zync-que"

\* every bundle returned so far
FactoryBundlesAlike ==
  \A i \in DOMAIN bundles :
    /\ ~bundles[i].panicked
    /\ bundles[i].Type = "apicast"
    /\ Len(bundles[i].rule.rules) > 0
    /\ \A j \in DOMAIN bundles :
         /\ bundles[j].Type = bundles[i].Type
         /\ Len(bundles[j].rule.rules) = Len(bundles[i].rule.rules)
\* a step that invokes a factory
FactoryLeavesSecretSource ==
  bundles' # bundles => (secrets' = secrets /\ calls' = calls)

\* C6: every invocation of the apicast rule factory returns without panic a
\* bundle of type apicast with at least one rule, the same type and number of
\* rules as every other invocation, and the invocation neither reads nor
\* writes the Secret Source.
C6_FactoryNeedsNoSecretSource ==
  [](FactoryBundlesAlike) /\ [][FactoryLeavesSecretSource]_vars

C6_Witness ==
  /\ Len(bundles) = MaxInvocations
  /\ \A p \in Resolvers : calls[p] = <<>>
  /\ secrets = EmptyStore
  /\ ~bundles[1].panicked
  /\ bundles[1].rule.group = <<"__NAMESPACE__", "apicast.rules">>

RequiredZyncFieldsSet(o) ==
  /\ o.ImageTag # "" /\ o.DatabaseImageTag # "" /\ o.Namespace # ""
  /\ Len(o.DatabasePassword) > 0 /\ Len(o.SecretKeyBase) > 0
  /\ Len(o.AuthenticationToken) > 0 /\ Len(o.DatabaseURL) > 0
  /\ \A m \in {o.CommonLabels, o.CommonZyncLabels, o.CommonZyncQueLabels,
               o.CommonZyncDatabaseLabels, o.ZyncPodTemplateLabels,
               o.ZyncQuePodTemplateLabels, o.ZyncDatabasePodTemplateLabels} :
        DOMAIN m # {}

\* C7: a model returned without error has every required field set and a
\* DatabaseURL whose embedded password is its DatabasePassword.
C7_ReturnedModelIsValid ==
  \A p \in Resolvers :
    (result[p].returned /\ ~result[p].isNil) =>
      /\ RequiredZyncFieldsSet(result[p].model)
      /\ HasEmbeddedPassword(result[p].model.DatabaseURL)
      /\ EmbeddedPassword(result[p].model.DatabaseURL) = result[p].model.DatabasePassword

C7_Witness ==
  \E p \in Resolvers :
    /\ Succeeded(p)
    /\ storeAtStart[p] = SettledStore
    /\ result[p].model.DatabasePassword = <<"a", "1">>
    /\ result[p].model.SecretKeyBase = <<"k", "0">>

AllSteps == <<"identity", "secrets", "resources", "scheduling", "replicas", "images",
              "labels", "flags", "pullSecrets", "namespace", "validate">>

\* C8: a resolution returns a model and no error, or an error and no model;
\* a failed resolution has run the steps up to the failing one and no later.
C8_ModelOrError ==
  \A p \in Resolvers :
    result[p].returned =>
      /\ result[p].isNil <=> result[p].err # NoError
      /\ result[p].isNil => result[p].model = NewZyncOptions
      /\ ~result[p].isNil => result[p].model = zyncOptions[p]
      /\ result[p].err.stage \in {"", "reading secret options", "reading image options",
                                  "validating"}
      /\ result[p].err.stage = "reading secret options" => steps[p] = SubSeq(AllSteps, 1, 2)
      /\ result[p].err.stage = "reading image options" => steps[p] = SubSeq(AllSteps, 1, 6)
      /\ result[p].err.stage \in {"", "validating"} => steps[p] = AllSteps
      /\ result[p].err.stage = "reading secret options" =>
           /\ zyncOptions[p].Namespace = ""
           /\ DOMAIN zyncOptions[p].CommonLabels = {}
      /\ result[p].err.stage = "reading image options" =>
           /\ zyncOptions[p].Namespace = ""
           /\ DOMAIN zyncOptions[p].CommonLabels = {}
           /\ zyncOptions[p].ZyncReplicas = int32(apimanager.AppReplicas)

C8_Witness ==
  \E p \in Resolvers :
    /\ FailedWith(p, "validating", "Validation")
    /\ zyncOptions[p].SecretKeyBase = <<>>
    /\ zyncOptions[p].DatabasePassword = <<"a", "1">>
    /\ steps[p] = AllSteps

SecretStepPcs == {"password", "case1", "case2", "case3"}

\* a step that changes the Secret Source is a writing Secret Source call of
\* step 2 of some resolver
SecretStepAlone ==
  (phase = "main" /\ secrets' # secrets) =>
     \E p \in Resolvers :
        /\ pc[p] \in SecretStepPcs
        /\ pc'[p] # pc[p]
        /\ Len(calls'[p]) = Len(calls[p]) + 1
        /\ calls'[p][Len(calls'[p])].wrote

\* C9: while resolvers run, the Secret Source changes only in a step of the
\* secret-based resolution (step 2) of some resolver: steps 1 and 3 to 11
\* leave it as step 2 left it.
C9_OnlySecretStepWrites == [][SecretStepAlone]_vars

C9_Witness ==
  \E p \in Resolvers :
    /\ Succeeded(p)
    /\ steps[p] = AllSteps
    /\ \E i \in DOMAIN calls[p] : calls[p][i].wrote
    /\ secrets # storeAtStart[p]

Range(f) == {f[i] : i \in DOMAIN f}

\* once main runs, a factory was invoked or a resolver started, the registry
\* is complete
RegistryComplete ==
  (phase = "main" \/ Len(bundles) > 0 \/ \E p \in Resolvers : pc[p] # "new") =>
     /\ initsRun = Len(InitFunctions)
     /\ Len(PrometheusRuleFactories) = Len(InitFunctions)
     /\ \A f \in Range(InitFunctions) :
          Cardinality({i \in DOMAIN PrometheusRuleFactories :
                         PrometheusRuleFactories[i] = f}) = 1
\* a step appends one new factory during initialization or leaves the
\* registry alone; a step that invokes a factory finds every init function run
RegistryStep ==
  /\ \/ PrometheusRuleFactories' = PrometheusRuleFactories
     \/ /\ phase = "init" /\ phase' = "init"
        /\ Len(PrometheusRuleFactories') = Len(PrometheusRuleFactories) + 1
        /\ SubSeq(PrometheusRuleFactories', 1, Len(PrometheusRuleFactories))
             = PrometheusRuleFactories
        /\ PrometheusRuleFactories'[Len(PrometheusRuleFactories')]
             \notin Range(PrometheusRuleFactories)
  /\ bundles' # bundles =>
        /\ initsRun = Len(InitFunctions)
        /\ PrometheusRuleFactories' = PrometheusRuleFactories

\* C10: the registry only grows, by one new factory at a time and only during
\* initialization, and when main runs or a factory has been invoked every
\* init function has run and each factory is registered exactly once.
C10_RegistryAppendOnly == [](RegistryComplete) /\ [][RegistryStep]_vars

C10_Witness ==
  /\ phase = "main"
  /\ Len(bundles) > 0
  /\ PrometheusRuleFactories = InitFunctions
  /\ Cardinality({i \in DOMAIN PrometheusRuleFactories :
                    PrometheusRuleFactories[i] = "apicast"}) = 1

\* the four lookups of step 2 succeeded and the consistency check has run
ConsistencyChecked(p) ==
  /\ Len(calls[p]) = 4
  /\ calls[p][4].err = "nil"
  /\ pc[p] # "consistency"
\* the resolved DatabaseURL parses and has no user-info at all
NoUserInfo(url) == LET u == urlParse(url) IN ~u.err /\ u.User.isNil
\* the resolved DatabaseURL parses and its user-info has no password part
UserInfoWithoutPassword(url) ==
  LET u == urlParse(url) IN ~u.err /\ ~u.User.isNil /\ ~u.User.passwordSet

\* C12: when the resolved DatabaseURL parses but has no user-info, or a
\* user-info without password part, the resolution fails with the one
\* missing-password-part error, never with the inconsistency error, whatever
\* the resolved DatabasePassword is (an empty one included).
C12_MissingPasswordPart ==
  \A p \in Resolvers :
    (ConsistencyChecked(p)
       /\ (NoUserInfo(zyncOptions[p].DatabaseURL)
            \/ UserInfoWithoutPassword(zyncOptions[p].DatabaseURL)))
    => /\ FailedWith(p, "reading secret options", "MissingPasswordPart")
       /\ result[p].err # Errorf("reading secret options", "Inconsistency")

C12_Witness ==
  /\ ConsistencyChecked(1) /\ ConsistencyChecked(2)
  /\ UserInfoWithoutPassword(zyncOptions[1].DatabaseURL)
  /\ zyncOptions[1].DatabasePassword = <<"a", "1">>
  /\ FailedWith(1, "reading secret options", "MissingPasswordPart")
  /\ FailedWith(2, "reading secret options", "MissingPasswordPart")

\* the zync secret holds a database password and no database URL
PasswordWithoutURL(store) ==
  /\ ZyncSecretOf(store).exists
  /\ ZyncSecretOf(store).data[ZyncSecretDatabasePasswordFieldName].present
  /\ ~ZyncSecretOf(store).data[ZyncSecretDatabaseURLFieldName].present
StoredPassword(store) == ZyncSecretOf(store).data[ZyncSecretDatabasePasswordFieldName].val

\* C13: with external database disabled, a resolution started on a zync secret
\* that holds a database password and no database URL reads the password
\* first, builds the default URL from it, passes the consistency check, and a
\* model it returns has a DatabaseURL whose embedded password is the stored
\* password.
C13_DefaultURLFromStoredPassword ==
  \A p \in Resolvers :
    (ConsistencyChecked(p) /\ ~apimanager.externalDb /\ PasswordWithoutURL(storeAtStart[p]))
    => /\ calls[p][1].field = ZyncSecretDatabasePasswordFieldName
       /\ calls[p][4].field = ZyncSecretDatabaseURLFieldName
       /\ zyncOptions[p].DatabasePassword = StoredPassword(storeAtStart[p])
       /\ zyncOptions[p].DatabaseURL = DefaultZyncDatabaseURL(StoredPassword(storeAtStart[p]))
       /\ result[p].err.stage # "reading secret options"
       /\ ~result[p].isNil =>
            /\ HasEmbeddedPassword(result[p].model.DatabaseURL)
            /\ EmbeddedPassword(result[p].model.DatabaseURL) = StoredPassword(storeAtStart[p])

\* the four secret-backed fields of a returned model
SecretFieldsOf(o) ==
  <<o.DatabasePassword, o.DatabaseURL, o.SecretKeyBase, o.AuthenticationToken>>
NoCallWrote(p) == \A i \in DOMAIN calls[p] : ~calls[p][i].wrote

\* C14: with external database disabled, after a resolution that started
\* without a zync secret and succeeded, every later resolution that has
\* returned succeeded, returned the same DatabasePassword, DatabaseURL,
\* SecretKeyBase and AuthenticationToken, made no writing Secret Source call
\* and left the Secret Source as it found it.
C14_ResolutionRepeatable ==
  \A p \in Resolvers : \A q \in Resolvers :
    (p < q /\ ~apimanager.externalDb /\ ~ZyncSecretOf(storeAtStart[p]).exists
       /\ Succeeded(p) /\ result[q].returned)
    => /\ Succeeded(q)
       /\ SecretFieldsOf(result[q].model) = SecretFieldsOf(result[p].model)
       /\ Len(calls[q]) = 4
       /\ NoCallWrote(q)
       /\ secrets = storeAtStart[q]

C14_Witness ==
  /\ ~apimanager.externalDb /\ storeAtStart[1] = EmptyStore
  /\ Succeeded(1) /\ Succeeded(2)
  /\ result[1].model.DatabasePassword = <<"a", "1">>
  /\ result[2].model.DatabasePassword = <<"a", "1">>
  /\ result[2].model.DatabaseURL = DefaultZyncDatabaseURL(<<"a", "1">>)
  /\ ~NoCallWrote(1) /\ NoCallWrote(2)
  /\ secrets = storeAtStart[2] /\ secrets # storeAtStart[1]

\* resolver p has returned and no later resolver has started: the Secret
\* Source is as p's call left it
JustReturned(p) ==
  /\ pc[p] = "returned"
  /\ \A q \in Resolvers : q > p => pc[q] = "new"
Failed(p) == result[p].returned /\ result[p].isNil
\* the fields resolver p's calls persisted a default for
DefaultedFields(p) == {calls[p][i].field : i \in {j \in DOMAIN calls[p] : calls[p][j].wrote}}

\* C16 as stated: a resolution that returned an error left the Secret Source
\* exactly as it was when the resolution started.
C16_FailureLeavesSecretSource ==
  \A p \in Resolvers :
    (JustReturned(p) /\ Failed(p)) => secrets = storeAtStart[p]

\* C16 amended: a resolution that returned an error left every field that was
\* stored before the call with its value, and added exactly the defaults its
\* FieldValue calls persisted before the failure: nothing is rolled back, and
\* the Secret Source is as before only when no call defaulted a field.
C16_FailureKeepsPersistedDefaults ==
  \A p \in Resolvers :
    (JustReturned(p) /\ Failed(p)) =>
      LET before == ZyncSecretOf(storeAtStart[p])
          after == ZyncSecretOf(secrets)
      IN  /\ \A f \in ZyncSecretFields :
               /\ before.data[f].present =>
                    (after.data[f] = before.data[f] /\ f \notin DefaultedFields(p))
               /\ ~before.data[f].present =>
                    (after.data[f].present <=> f \in DefaultedFields(p))
          /\ after.exists <=> (before.exists \/ DefaultedFields(p) # {})
          /\ \A i \in DOMAIN calls[p] : calls[p][i].wrote => calls[p][i].op = "FieldValue"
          /\ (secrets = storeAtStart[p]) <=> NoCallWrote(p)

C16_Witness ==
  \E p \in Resolvers :
    /\ JustReturned(p)
    /\ FailedWith(p, "reading secret options", "MissingPasswordPart")
    /\ ~apimanager.externalDb
    /\ ~ZyncSecretOf(storeAtStart[p]).data[ZyncSecretDatabasePasswordFieldName].present
    /\ ZyncSecretOf(secrets).data[ZyncSecretDatabasePasswordFieldName].present
    /\ ZyncSecretDatabasePasswordFieldName \in DefaultedFields(p)
    /\ secrets # storeAtStart[p]

\* C15: with resolvers of the zync subsystem running concurrently on a
\* namespace that held no secret, no resolver fails with the inconsistency
\* error, all that return a model return the same DatabasePassword and
\* DatabaseURL, and when all have returned the stored database URL embeds the
\* stored database password.
C15_ConcurrentResolversAgree ==
  (phase = "main" /\ ~apimanager.externalDb) =>
    /\ \A p \in Resolvers :
         result[p].err # Errorf("reading secret options", "Inconsistency")
    /\ \A p \in Resolvers : \A q \in Resolvers :
         (Succeeded(p) /\ Succeeded(q)) =>
            /\ result[p].model.DatabasePassword = result[q].model.DatabasePassword
            /\ result[p].model.DatabaseURL = result[q].model.DatabaseURL
    /\ (\A p \in Resolvers : result[p].returned) =>
         LET d == ZyncSecretOf(secrets).data
         IN  /\ d[ZyncSecretDatabaseURLFieldName].present
             /\ d[ZyncSecretDatabasePasswordFieldName].present
             /\ HasEmbeddedPassword(d[ZyncSecretDatabaseURLFieldName].val)
             /\ EmbeddedPassword(d[ZyncSecretDatabaseURLFieldName].val)
                  = d[ZyncSecretDatabasePasswordFieldName].val

\* zync resolver p returned what GetZyncOptions returns on the Secret Source it
\* started on, for some run of the random generators, and the zync secret is
\* as that call leaves it
ZyncAsAlone(p) ==
  \E dp \in GenPasswords, dk \in GenSecretKeyBases, dt \in GenAuthenticationTokens :
    LET alone == GetZyncOptions(apimanager, storeAtStart[p], dp, dk, dt)
    IN  /\ result[p] = alone.result
        /\ secrets[ZyncSecretName] = alone.store[ZyncSecretName]
\* the same for the system resolver and the system-app secret
SystemAsAlone ==
  \E def \in GenSecretKeyBases :
    LET alone == FieldValue(systemStoreAtStart, SystemAppSecretName,
                            SystemSecretKeyBaseFieldName, def)
    IN  /\ systemOptions.SecretKeyBase = alone.val
        /\ secrets[SystemAppSecretName] = alone.store[SystemAppSecretName]
SubsystemsAsAlone ==
  /\ \A p \in Resolvers : JustReturned(p) => ZyncAsAlone(p)
  /\ systemPc = "returned" => SystemAsAlone
\* a step of a zync resolver leaves the system-app secret alone, and a step
\* of the system resolver leaves the zync secret alone
OwnSecretOnly ==
  /\ pc' # pc => secrets'[SystemAppSecretName] = secrets[SystemAppSecretName]
  /\ systemPc' # systemPc => secrets'[ZyncSecretName] = secrets[ZyncSecretName]

\* C11: with the system resolver running concurrently with the zync
\* resolvers, every step of a resolver changes at most the secret of its own
\* subsystem, and under every interleaving each resolver returns what it
\* returns when it runs alone on the Secret Source it started on and leaves
\* its own secret as that run leaves it.
C11_SubsystemsDoNotInterfere == [](SubsystemsAsAlone) /\ [][OwnSecretOnly]_vars

C11_Witness ==
  /\ ~apimanager.externalDb
  /\ storeAtStart[1] = EmptyStore
  /\ ~systemStoreAtStart[SystemAppSecretName].exists
  /\ Succeeded(1) /\ systemPc = "returned" /\ pc[2] = "new"
  /\ systemStoreAtStart[ZyncSecretName].data[ZyncSecretDatabasePasswordFieldName].present
  /\ ~systemStoreAtStart[ZyncSecretName].data[ZyncSecretKeyBaseFieldName].present
  /\ result[1].model.SecretKeyBase = <<"k", "1">>
  /\ systemOptions.SecretKeyBase = <<"k", "2">>
  /\ secrets[ZyncSecretName].data[ZyncSecretKeyBaseFieldName] = Stored(<<"k", "1">>)
  /\ secrets[SystemAppSecretName].data[SystemSecretKeyBaseFieldName] = Stored(<<"k", "2">>)

====
